---- MODULE Spec2Model ----
(***************************************************************************)
(* A state-machine model of src/Gript.js: the orbit camera, the sprite     *)
(* collection, the selection manager (outline + transform gizmo), and the  *)
(* asynchronous texture loader.  Every DOM event handler is one action;    *)
(* a keydown event runs both registered keydown handlers in registration   *)
(* order inside one action.                                                *)
(***************************************************************************)
EXTENDS Integers, FiniteSets, Sequences

VARIABLES
    Sprites,            \* the array Sprites (live placed objects, in push order)
    sceneSprites,       \* the sprite groups that are children of Scene
    SelectedSprite,     \* the selected group, or NULL
    outlineChildren,    \* per group: number of outline meshes among its children
    selectionOutline,   \* per group: userData.selectionOutline is defined
    gizmoObject,        \* TransformControls.object, or NULL
    gizmoMode,          \* TransformControls mode
    CurrentModeIndex,   \* index into TransformModes (0-based, as in the source)
    created,            \* number of sprite groups constructed so far
    IsTransformActive,  \* latched by the gizmo's dragging-changed event
    UserTexture,        \* the stored user texture, or NULL
    pendingLoads,       \* textures whose asynchronous load has not completed
    disposed,           \* textures on which dispose() was called
    nextFile,           \* number of files chosen so far
    Radius,             \* orbit radius, in thousandths
    Theta,              \* orbit azimuth, in thousandths of a radian
    Phi,                \* orbit polar angle as stored, in thousandths of a radian
    IsDragging,         \* a camera drag is in progress
    PreviousMousePosition, \* <<x, y>> of the pointer at the last drag event
    cameraPosition,     \* the spherical coordinates Camera.position was last computed from
    innerSize,          \* <<window.innerWidth, window.innerHeight>>
    cameraAspect,       \* Camera.aspect as <<numerator, denominator>>
    rendererSize,       \* the size last given to Renderer.setSize
    Mouse,              \* the Vector2 Mouse, in thousandths
    pressed,            \* history: secondary button pressed on the canvas, no mouseup or mouseleave since
    lastEvent,          \* history: the event dispatched last
    tabRun,             \* history: selections made by consecutive Tab presses from Idle
    deleted             \* history: groups whose deletion was confirmed

selVars == <<Sprites, sceneSprites, SelectedSprite, outlineChildren,
             selectionOutline, gizmoObject, gizmoMode, CurrentModeIndex, created>>
texVars == <<UserTexture, pendingLoads, disposed, nextFile>>
orbitVars == <<Radius, Theta, Phi, cameraPosition>>
dragVars == <<IsDragging, PreviousMousePosition, pressed>>
viewVars == <<innerSize, cameraAspect, rendererSize>>
camVars == <<orbitVars, dragVars, viewVars>>
vars == <<selVars, texVars, camVars, Mouse, IsTransformActive, lastEvent, tabRun, deleted>>

(***************************************************************************)
(* Bounds of the model.                                                    *)
(***************************************************************************)
MaxSprites == 3      \* sprite groups constructed in one run
MaxHits == 2         \* length of a ray's hit list
MaxFiles == 1        \* files chosen in one run
MaxRadius == 10500   \* zooming out stops here (thousandths)
MinZoomRadius == 9900 \* zooming in stops here while the camera is also dragged
MaxAngle == 4000     \* dragging stops when an angle would leave -MaxAngle .. MaxAngle
MaxLoads == 3        \* files chosen in one run of the texture loader alone

NULL == 0
SpriteIds == 1 .. MaxSprites
MaxTabRun == MaxSprites + 1

(***************************************************************************)
(* Program constants.                                                      *)
(***************************************************************************)
TransformModes == <<"translate", "rotate", "scale">>
InitRadius == 10000          \* let Radius = 10
MinRadius == 1100            \* Math.max(1.1, Radius)
ZoomFloor == 100             \* the 0.1 of Math.max(0.1, (Radius - 1) / 10)
RightButton == 2             \* Event.button === 2
Buttons == {0, RightButton}
KeyCodes == {"Space", "Escape", "Delete", "Backspace", "Tab"}
DeltaYs == {-1, 0, 1}

Range(seq) == {seq[i] : i \in 1 .. Len(seq)}

(***************************************************************************)
(* The scene graph, as far as a ray can hit it.  A node is <<kind, owner>>. *)
(* Scene's children are the grid, the axes, the TransformControls and the  *)
(* sprite groups; a group holds its plane, its selection box and, while    *)
(* selected, its outline; a gizmo handle sits two levels under the         *)
(* TransformControls.                                                      *)
(***************************************************************************)
SceneNode == <<"Scene", NULL>>

ParentOf(n) ==
    CASE n[1] \in {"plane", "box", "outline"} -> <<"group", n[2]>>
      [] n[1] = "gizmoHandle" -> <<"gizmo", NULL>>
      [] n[1] = "gizmo" -> <<"TransformControls", NULL>>
      [] OTHER -> SceneNode

\* What Raycaster.intersectObjects(Scene.children, true) can return.
Hittable(scene, outlines) ==
    {<<"grid", NULL>>, <<"axes", NULL>>, <<"gizmoHandle", NULL>>}
    \cup {<<"plane", s>> : s \in scene}
    \cup {<<"box", s>> : s \in scene}
    \cup {<<"outline", s>> : s \in {x \in scene : outlines[x] > 0}}

SeqsUpTo(S, n) == UNION {[1 .. k -> S] : k \in 0 .. n}

HitLists == SeqsUpTo(Hittable(sceneSprites, outlineChildren), MaxHits)

\* while (Parent.parent && Parent.parent !== Scene) Parent = Parent.parent
RECURSIVE TopLevelParent(_)
TopLevelParent(Parent) ==
    IF ParentOf(Parent) # SceneNode THEN TopLevelParent(ParentOf(Parent)) ELSE Parent

\* Parent.userData && Parent.userData.isSprite
IsSprite(node) == node[1] = "group"

\* mutant of PickLoop: looks at the nearest hit only
PickLoopNearestOnly(Intersects, i) ==
    IF i > Len(Intersects) THEN NULL
    ELSE LET Parent == TopLevelParent(Intersects[i])
         IN IF IsSprite(Parent) THEN Parent[2] ELSE NULL

\* for (let i = 0; i < Intersects.length; i++) { ... break; }   (i is 1-based here)
RECURSIVE PickLoop(_, _)
PickLoop(Intersects, i) ==
    IF i > Len(Intersects) THEN NULL
    ELSE LET Parent == TopLevelParent(Intersects[i])
         IN IF IsSprite(Parent) THEN Parent[2] ELSE PickLoop(Intersects, i + 1)

(***************************************************************************)
(* The selection manager.  Handlers are functions on a record of the       *)
(* selection state, so that one event can run several of them in sequence; *)
(* prompts and alerts count the confirm() and alert() dialogs shown.       *)
(***************************************************************************)
SelState ==
    [Sprites |-> Sprites, sceneSprites |-> sceneSprites,
     SelectedSprite |-> SelectedSprite, outlineChildren |-> outlineChildren,
     selectionOutline |-> selectionOutline, gizmoObject |-> gizmoObject,
     gizmoMode |-> gizmoMode, CurrentModeIndex |-> CurrentModeIndex,
     created |-> created, prompts |-> 0, alerts |-> 0]

Commit(st) ==
    /\ Sprites' = st.Sprites
    /\ sceneSprites' = st.sceneSprites
    /\ SelectedSprite' = st.SelectedSprite
    /\ outlineChildren' = st.outlineChildren
    /\ selectionOutline' = st.selectionOutline
    /\ gizmoObject' = st.gizmoObject
    /\ gizmoMode' = st.gizmoMode
    /\ CurrentModeIndex' = st.CurrentModeIndex
    /\ created' = st.created

\* Sprites.indexOf(x): 0-based, -1 when absent
IndexOf(seq, x) ==
    IF x \in Range(seq)
    THEN (CHOOSE i \in 1 .. Len(seq) : seq[i] = x /\ \A j \in 1 .. i - 1 : seq[j] # x) - 1
    ELSE -1

\* Sprites.splice(Index, 1)
Splice(seq, Index) ==
    [k \in 1 .. Len(seq) - 1 |-> IF k <= Index THEN seq[k] ELSE seq[k + 1]]

\* Sprite.remove(outline): drops the mesh if it is a child
RemoveOutline(st, s) ==
    [st EXCEPT !.outlineChildren[s] = IF @ > 0 THEN @ - 1 ELSE 0]

\* mutant of SetRememberedMode: the gizmo is set to the first mode
SetFirstMode(st) ==
    [st EXCEPT !.gizmoMode = TransformModes[1]]

\* TransformControls.setMode(TransformModes[CurrentModeIndex])
SetRememberedMode(st) ==
    [st EXCEPT !.gizmoMode = TransformModes[st.CurrentModeIndex + 1]]

\* mutant of SelectSprite: the previous outline is left in place
SelectSpriteKeepsOutline(st, Sprite) ==
    LET s2 == SetRememberedMode([st EXCEPT !.SelectedSprite = Sprite,
                                           !.gizmoObject = Sprite])
    IN [s2 EXCEPT !.outlineChildren[Sprite] = @ + 1,
                  !.selectionOutline[Sprite] = TRUE]

SelectSprite(st, Sprite) ==
    LET old == st.SelectedSprite
        s1 == IF old # NULL /\ st.selectionOutline[old]
              THEN [RemoveOutline(st, old) EXCEPT !.selectionOutline[old] = FALSE]
              ELSE st
        s2 == SetRememberedMode([s1 EXCEPT !.SelectedSprite = Sprite,
                                           !.gizmoObject = Sprite])
    IN [s2 EXCEPT !.outlineChildren[Sprite] = @ + 1,
                  !.selectionOutline[Sprite] = TRUE]

DeselectCurrentSprite(st) ==
    LET old == st.SelectedSprite
        s1 == [st EXCEPT !.gizmoObject = NULL]
        s2 == IF s1.selectionOutline[old]
              THEN [RemoveOutline(s1, old) EXCEPT !.selectionOutline[old] = FALSE]
              ELSE s1
    IN IF old # NULL THEN [s2 EXCEPT !.SelectedSprite = NULL] ELSE st

\* mutant of DeleteSelectedSprite: the array entry is not spliced out
DeleteSelectedSpriteKeepsEntry(st) ==
    LET old == st.SelectedSprite
        s1 == IF st.selectionOutline[old] THEN RemoveOutline(st, old) ELSE st
        s2 == [s1 EXCEPT !.sceneSprites = @ \ {old}]
    IN IF old # NULL
       THEN [s2 EXCEPT !.gizmoObject = NULL, !.SelectedSprite = NULL]
       ELSE st

\* mutant of DeleteSelectedSprite, another one: SelectedSprite is not cleared
DeleteSelectedSpriteKeepsSelection(st) ==
    LET old == st.SelectedSprite
        s1 == IF st.selectionOutline[old] THEN RemoveOutline(st, old) ELSE st
        s2 == [s1 EXCEPT !.sceneSprites = @ \ {old}]
        Index == IndexOf(s2.Sprites, old)
        s3 == IF Index > -1 THEN [s2 EXCEPT !.Sprites = Splice(@, Index)] ELSE s2
    IN IF old # NULL
       THEN [s3 EXCEPT !.gizmoObject = NULL]
       ELSE st

DeleteSelectedSprite(st) ==
    LET old == st.SelectedSprite
        s1 == IF st.selectionOutline[old] THEN RemoveOutline(st, old) ELSE st
        s2 == [s1 EXCEPT !.sceneSprites = @ \ {old}]
        Index == IndexOf(s2.Sprites, old)
        s3 == IF Index > -1 THEN [s2 EXCEPT !.Sprites = Splice(@, Index)] ELSE s2
    IN IF old # NULL
       THEN [s3 EXCEPT !.gizmoObject = NULL, !.SelectedSprite = NULL]
       ELSE st

\* mutant of ShowDeleteConfirmation: the answer is ignored
ShowDeleteConfirmationIgnoresAnswer(st, answer) ==
    DeleteSelectedSprite([st EXCEPT !.prompts = @ + 1])

\* confirm(...) answers `answer`
ShowDeleteConfirmation(st, answer) ==
    LET s1 == [st EXCEPT !.prompts = @ + 1]
    IN IF answer THEN DeleteSelectedSprite(s1) ELSE s1

\* mutant of CycleMode: the gizmo's object is not consulted
CycleModeUnguarded(st) ==
    SetRememberedMode([st EXCEPT !.CurrentModeIndex = (@ + 1) % Len(TransformModes)])

\* Space in either keydown handler
CycleMode(st) ==
    IF st.gizmoObject # NULL
    THEN SetRememberedMode(
             [st EXCEPT !.CurrentModeIndex = (@ + 1) % Len(TransformModes)])
    ELSE st

\* the keydown handler registered first
KeydownFirst(st, code) ==
    LET s1 == IF code = "Space" THEN CycleMode(st) ELSE st
    IN IF code = "Escape" THEN [s1 EXCEPT !.gizmoObject = NULL] ELSE s1

\* mutant of CycleSprite: the index does not wrap around
CycleSpriteNoWrap(st) ==
    LET Current == IndexOf(st.Sprites, st.SelectedSprite)
        NextIndex == IF st.SelectedSprite # NULL
                     THEN (IF Current + 1 < Len(st.Sprites) THEN Current + 1 ELSE Current)
                     ELSE 0
    IN IF Len(st.Sprites) > 0 THEN SelectSprite(st, st.Sprites[NextIndex + 1]) ELSE st

\* Tab in the second keydown handler
CycleSprite(st) ==
    LET NextIndex == IF st.SelectedSprite # NULL
                     THEN (IndexOf(st.Sprites, st.SelectedSprite) + 1) % Len(st.Sprites)
                     ELSE 0
    IN IF Len(st.Sprites) > 0 THEN SelectSprite(st, st.Sprites[NextIndex + 1]) ELSE st

\* the keydown handler registered second
KeydownSecond(st, code, answer) ==
    LET s1 == IF code = "Space" THEN CycleMode(st) ELSE st
        s2 == IF code = "Escape" THEN DeselectCurrentSprite(s1) ELSE s1
        s3 == IF code \in {"Delete", "Backspace"} /\ s2.SelectedSprite # NULL
              THEN ShowDeleteConfirmation(s2, answer) ELSE s2
    IN IF code = "Tab" THEN CycleSprite(s3) ELSE s3

\* both handlers, in registration order
Keydown(st, code, answer) == KeydownSecond(KeydownFirst(st, code), code, answer)

\* the group CreatePlaneSprite returns, or NULL after the alert
CreatePlaneSprite(st, texture) ==
    IF texture = NULL THEN NULL ELSE st.created + 1

\* mutant of AddSprite: the new group is put at the front of the array
AddSpriteAtFront(st, texture) ==
    LET PlaneSprite == CreatePlaneSprite(st, texture)
        s1 == [st EXCEPT !.created = PlaneSprite,
                         !.sceneSprites = @ \cup {PlaneSprite},
                         !.Sprites = <<PlaneSprite>> \o @]
    IN IF PlaneSprite # NULL
       THEN SelectSprite(s1, PlaneSprite)
       ELSE [st EXCEPT !.alerts = @ + 1]

\* addSpriteBtn click
AddSprite(st, texture) ==
    LET PlaneSprite == CreatePlaneSprite(st, texture)
        s1 == [st EXCEPT !.created = PlaneSprite,
                         !.sceneSprites = @ \cup {PlaneSprite},
                         !.Sprites = Append(@, PlaneSprite)]
    IN IF PlaneSprite # NULL
       THEN SelectSprite(s1, PlaneSprite)
       ELSE [st EXCEPT !.alerts = @ + 1]

\* mutant of PickSuppressed: the drag latch is not consulted
PickSuppressedByButtonOnly(button, active) == button = RightButton

\* the click guard: right click, or a gizmo drag in progress
PickSuppressed(button, active) == button = RightButton \/ active

\* canvas click, past the guard
Pick(st, Intersects) ==
    LET SpriteToSelect == PickLoop(Intersects, 1)
    IN IF SpriteToSelect # NULL
       THEN SelectSprite(st, SpriteToSelect)
       ELSE DeselectCurrentSprite(st)

\* a mode button's click handler (Index is 0-based)
SetModeButton(st, Index) ==
    IF st.gizmoObject # NULL
    THEN [st EXCEPT !.gizmoMode = TransformModes[Index + 1], !.CurrentModeIndex = Index]
    ELSE st

\* deleteBtn click
DeleteButton(st, answer) ==
    IF st.SelectedSprite # NULL THEN ShowDeleteConfirmation(st, answer) ELSE st

(***************************************************************************)
(* The orbit camera's zoom.  Radius is held in thousandths; the quotient   *)
(* and the product of the zoom factor are rounded down to that grid.       *)
(***************************************************************************)
Max(a, b) == IF a >= b THEN a ELSE b

\* ZOOMINTENSITY * Math.max(0.1, (Radius - 1) / 10), with ZOOMINTENSITY = 0.5
ZoomFactor(r) == Max(ZoomFloor, (r - 1000) \div 10) \div 2

\* mutant of Delta: the direction is inverted
DeltaInverted(deltaY) == IF deltaY > 0 THEN -1 ELSE 1

\* Event.deltaY > 0 ? 1 : -1
Delta(deltaY) == IF deltaY > 0 THEN 1 ELSE -1

\* mutant of ClampRadius: the floor is 1.0
ClampRadiusAtOne(r) == Max(1000, r)

\* Radius = Math.max(1.1, Radius)
ClampRadius(r) == Max(MinRadius, r)

\* the wheel handler's new Radius, past the guard
Zoom(r, deltaY) == ClampRadius(r + Delta(deltaY) * ZoomFactor(r))

(***************************************************************************)
(* The orbit camera's state and handlers.  Angles are held in thousandths  *)
(* of a radian.  Camera.position is a function of the three spherical      *)
(* coordinates UpdateCameraPosition computes it from; the model keeps      *)
(* those coordinates in cameraPosition.  A handler is an operator on the   *)
(* record CamState; updates counts the calls of UpdateCameraPosition the   *)
(* handler made.                                                           *)
(***************************************************************************)
Min(a, b) == IF a <= b THEN a ELSE b
Abs(a) == IF a >= 0 THEN a ELSE -a

Pi == 3142                   \* Math.PI
InitTheta == Pi \div 4       \* let Theta = Math.PI / 4
InitPhi == Pi \div 4         \* let Phi = Math.PI / 4
PhiEpsilon == 10             \* the 0.01 of PhiClamped
RotateSpeed == 5             \* ROTATESPEED = 0.005, per pixel
WINDOW_WIDTH == 800          \* innerWidth when the script ran
WINDOW_HEIGHT == 600         \* innerHeight when the script ran
Sizes == {<<WINDOW_WIDTH, WINDOW_HEIGHT>>, <<400, 300>>, <<1200, 300>>}
PointerXs == {0, 400}
PointerYs == {0, 150, 300}

\* mutant of PhiClamped: only the lower limit is applied
PhiClampedBelowOnly(phi) == Max(PhiEpsilon, phi)

\* Math.max(0.01, Math.min(Math.PI - 0.01, Phi))
PhiClamped(phi) == Max(PhiEpsilon, Min(Pi - PhiEpsilon, phi))

CamState ==
    [Radius |-> Radius, Theta |-> Theta, Phi |-> Phi,
     cameraPosition |-> cameraPosition,
     IsDragging |-> IsDragging, PreviousMousePosition |-> PreviousMousePosition,
     cameraAspect |-> cameraAspect, rendererSize |-> rendererSize,
     updates |-> 0]

CommitCamera(cam) ==
    /\ Radius' = cam.Radius
    /\ Theta' = cam.Theta
    /\ Phi' = cam.Phi
    /\ cameraPosition' = cam.cameraPosition
    /\ IsDragging' = cam.IsDragging
    /\ PreviousMousePosition' = cam.PreviousMousePosition
    /\ cameraAspect' = cam.cameraAspect
    /\ rendererSize' = cam.rendererSize

SphericalOf(r, theta, phi) == [Radius |-> r, Phi |-> PhiClamped(phi), Theta |-> theta]

UpdateCameraPosition(cam) ==
    [cam EXCEPT !.cameraPosition = SphericalOf(cam.Radius, cam.Theta, cam.Phi),
                !.updates = @ + 1]

\* mutant of MouseDown: the gizmo's drag latch is not consulted
MouseDownIgnoresLatch(cam, active, button, x, y) ==
    IF button = RightButton
    THEN [cam EXCEPT !.IsDragging = TRUE, !.PreviousMousePosition = <<x, y>>]
    ELSE cam

\* mousedown on the canvas
MouseDown(cam, active, button, x, y) ==
    IF button = RightButton /\ ~active
    THEN [cam EXCEPT !.IsDragging = TRUE, !.PreviousMousePosition = <<x, y>>]
    ELSE cam

\* mouseup on the canvas
MouseUp(cam) == [cam EXCEPT !.IsDragging = FALSE]

\* mouseleave on the canvas
MouseLeave(cam) == [cam EXCEPT !.IsDragging = FALSE]

\* mutant of MouseMove: the camera is not repositioned
MouseMoveNoUpdate(cam, active, x, y) ==
    IF ~cam.IsDragging \/ active THEN cam
    ELSE LET DeltaMove == <<x - cam.PreviousMousePosition[1],
                            y - cam.PreviousMousePosition[2]>>
         IN [cam EXCEPT !.Theta = @ - DeltaMove[1] * RotateSpeed,
                        !.Phi = @ - DeltaMove[2] * RotateSpeed,
                        !.PreviousMousePosition = <<x, y>>]

\* mousemove on the canvas
MouseMove(cam, active, x, y) ==
    IF ~cam.IsDragging \/ active THEN cam
    ELSE LET DeltaMove == <<x - cam.PreviousMousePosition[1],
                            y - cam.PreviousMousePosition[2]>>
             turned == [cam EXCEPT !.Theta = @ - DeltaMove[1] * RotateSpeed,
                                   !.Phi = @ - DeltaMove[2] * RotateSpeed]
         IN [UpdateCameraPosition(turned) EXCEPT !.PreviousMousePosition = <<x, y>>]

\* wheel on the canvas
WheelHandler(cam, active, deltaY) ==
    IF active THEN cam
    ELSE UpdateCameraPosition([cam EXCEPT !.Radius = Zoom(@, deltaY)])

\* resize of the window, whose inner size is now size
ResizeHandler(cam, size) ==
    [cam EXCEPT !.cameraAspect = size, !.rendererSize = size]

\* the click handler's conversion of the pointer position
ToNDC(x, y) == <<(x * 2000) \div WINDOW_WIDTH - 1000,
                 1000 - (y * 2000) \div WINDOW_HEIGHT>>

\* pointer positions on a canvas of the given size: corners, edges, centre
ClickPoints(size) == {<<(size[1] * i) \div 2, (size[2] * j) \div 2>> : i, j \in 0 .. 2}

(***************************************************************************)
(* What a pick is expected to select, stated without the handler's loop: the *)
(* owner of the first hit that lies under a sprite group, NULL if none.    *)
(***************************************************************************)
RECURSIVE InSubtree(_, _)
InSubtree(n, root) == n = root \/ (n # SceneNode /\ InSubtree(ParentOf(n), root))

\* the sprite group n lies under, or NULL
OwnerOf(n) ==
    IF n[2] # NULL /\ InSubtree(n, <<"group", n[2]>>) THEN n[2] ELSE NULL

\* index of the first hit owned by a sprite group; Len(hits) + 1 if there is none
FirstOwned(hits) ==
    LET owned == {i \in 1 .. Len(hits) : OwnerOf(hits[i]) # NULL}
    IN IF owned = {} THEN Len(hits) + 1
       ELSE CHOOSE i \in owned : \A j \in owned : i <= j

\* what a pick of `hits` is expected to select, and whether hits were skipped
Expected(hits) ==
    LET first == FirstOwned(hits)
    IN [owner |-> IF first > Len(hits) THEN NULL ELSE OwnerOf(hits[first]),
        skipped |-> first > 1]

(***************************************************************************)
(* Initial state: the module's top-level statements have run.              *)
(***************************************************************************)
Init ==
    /\ Sprites = <<>>
    /\ sceneSprites = {}
    /\ SelectedSprite = NULL
    /\ outlineChildren = [s \in SpriteIds |-> 0]
    /\ selectionOutline = [s \in SpriteIds |-> FALSE]
    /\ gizmoObject = NULL
    /\ gizmoMode = "translate"
    /\ CurrentModeIndex = 0
    /\ created = 0
    /\ IsTransformActive = FALSE
    /\ UserTexture = NULL
    /\ pendingLoads = {}
    /\ disposed = {}
    /\ nextFile = 0
    /\ Radius = InitRadius
    /\ Theta = InitTheta
    /\ Phi = InitPhi
    /\ cameraPosition = SphericalOf(InitRadius, InitTheta, InitPhi)
    /\ IsDragging = FALSE
    /\ PreviousMousePosition = <<0, 0>>
    /\ innerSize = <<WINDOW_WIDTH, WINDOW_HEIGHT>>
    /\ cameraAspect = <<WINDOW_WIDTH, WINDOW_HEIGHT>>
    /\ rendererSize = <<WINDOW_WIDTH, WINDOW_HEIGHT>>
    /\ Mouse = <<0, 0>>
    /\ pressed = FALSE
    /\ lastEvent = [kind |-> "init"]
    /\ tabRun = <<>>
    /\ deleted = {}

(***************************************************************************)
(* Events.                                                                 *)
(***************************************************************************)
\* addSpriteBtn click
AddSpriteClick ==
    /\ UserTexture = NULL \/ created < MaxSprites
    /\ LET st == AddSprite(SelState, UserTexture)
       IN /\ Commit(st)
          /\ lastEvent' = [kind |-> "add", texture |-> UserTexture, alerts |-> st.alerts]
    /\ tabRun' = <<>>
    /\ UNCHANGED <<texVars, camVars, Mouse, IsTransformActive, deleted>>

\* canvas click stopped by the guard
ClickSuppressed(button) ==
    /\ PickSuppressed(button, IsTransformActive)
    /\ lastEvent' = [kind |-> "click", button |-> button, suppressed |-> TRUE,
                     active |-> IsTransformActive]
    /\ tabRun' = <<>>
    /\ UNCHANGED <<selVars, texVars, camVars, Mouse, IsTransformActive, deleted>>

\* canvas click that casts the ray
ClickPick(button, Intersects, x, y) ==
    /\ ~PickSuppressed(button, IsTransformActive)
    /\ Mouse' = ToNDC(x, y)
    /\ Commit(Pick(SelState, Intersects))
    /\ LET expected == Expected(Intersects)
       IN lastEvent' = [kind |-> "click", button |-> button, suppressed |-> FALSE,
                        active |-> IsTransformActive,
                        owner |-> expected.owner, skipped |-> expected.skipped,
                        at |-> <<x, y>>]
    /\ tabRun' = <<>>
    /\ UNCHANGED <<texVars, camVars, IsTransformActive, deleted>>

\* keydown on the document: both handlers run
KeydownEvent(code, answer) ==
    /\ LET st == Keydown(SelState, code, answer)
       IN /\ Commit(st)
          /\ lastEvent' = [kind |-> "keydown", code |-> code,
                           prompts |-> st.prompts,
                           answer |-> st.prompts > 0 /\ answer]
          /\ deleted' = IF st.prompts > 0 /\ answer
                        THEN deleted \cup {SelectedSprite} ELSE deleted
          /\ tabRun' = IF code # "Tab" \/ st.SelectedSprite = NULL THEN <<>>
                       ELSE IF SelectedSprite = NULL THEN <<st.SelectedSprite>>
                       ELSE IF tabRun # <<>> /\ Len(tabRun) < MaxTabRun
                            THEN Append(tabRun, st.SelectedSprite)
                       ELSE <<>>
    /\ UNCHANGED <<texVars, camVars, Mouse, IsTransformActive>>

\* translateBtn / rotateBtn / scaleBtn click
ModeButtonClick(Index) ==
    /\ Commit(SetModeButton(SelState, Index))
    /\ lastEvent' = [kind |-> "modeButton", index |-> Index]
    /\ tabRun' = <<>>
    /\ UNCHANGED <<texVars, camVars, Mouse, IsTransformActive, deleted>>

\* deleteBtn click
DeleteButtonClick(answer) ==
    /\ LET st == DeleteButton(SelState, answer)
       IN /\ Commit(st)
          /\ lastEvent' = [kind |-> "deleteButton", prompts |-> st.prompts,
                           answer |-> st.prompts > 0 /\ answer]
          /\ deleted' = IF st.prompts > 0 /\ answer
                        THEN deleted \cup {SelectedSprite} ELSE deleted
    /\ tabRun' = <<>>
    /\ UNCHANGED <<texVars, camVars, Mouse, IsTransformActive>>

\* the gizmo's dragging-changed event
DraggingChanged(value) ==
    /\ IsTransformActive' = value
    /\ lastEvent' = [kind |-> "dragging-changed", value |-> value]
    /\ tabRun' = <<>>
    /\ UNCHANGED <<selVars, texVars, camVars, Mouse, deleted>>

\* FileInput change with a file chosen: the load starts
FileChosen ==
    /\ nextFile' = nextFile + 1
    /\ pendingLoads' = pendingLoads \cup {nextFile + 1}
    /\ lastEvent' = [kind |-> "file", texture |-> nextFile + 1]
    /\ tabRun' = <<>>
    /\ UNCHANGED <<selVars, camVars, Mouse, IsTransformActive, UserTexture, disposed, deleted>>

FileChange == nextFile < MaxFiles /\ FileChosen

\* the same event where only the texture loader is observed
FileChangeQueued == nextFile < MaxLoads /\ FileChosen

\* mutant of LoadComplete: the previous texture is not disposed
LoadCompleteKeepsOld(Texture) ==
    /\ Texture \in pendingLoads
    /\ pendingLoads' = pendingLoads \ {Texture}
    /\ UserTexture' = Texture
    /\ lastEvent' = [kind |-> "load", texture |-> Texture]
    /\ tabRun' = <<>>
    /\ UNCHANGED <<selVars, camVars, Mouse, IsTransformActive, nextFile, disposed, deleted>>

\* the TextureLoader's onLoad callback
LoadComplete(Texture) ==
    /\ Texture \in pendingLoads
    /\ pendingLoads' = pendingLoads \ {Texture}
    /\ disposed' = IF UserTexture # NULL THEN disposed \cup {UserTexture} ELSE disposed
    /\ UserTexture' = Texture
    /\ lastEvent' = [kind |-> "load", texture |-> Texture]
    /\ tabRun' = <<>>
    /\ UNCHANGED <<selVars, camVars, Mouse, IsTransformActive, nextFile, deleted>>

\* wheel on the canvas
Wheel(deltaY) ==
    /\ Zoom(Radius, deltaY) <= MaxRadius
    /\ LET cam == WheelHandler(CamState, IsTransformActive, deltaY)
       IN /\ CommitCamera(cam)
          /\ lastEvent' = [kind |-> "wheel", deltaY |-> deltaY, from |-> Radius,
                           active |-> IsTransformActive, updates |-> cam.updates]
    /\ tabRun' = <<>>
    /\ UNCHANGED <<selVars, texVars, innerSize, Mouse, pressed, IsTransformActive, deleted>>

\* the same event while the camera is also dragged
WheelNear(deltaY) == Zoom(Radius, deltaY) >= MinZoomRadius /\ Wheel(deltaY)

\* mousedown on the canvas
MouseDownEvent(button, x, y) ==
    /\ LET cam == MouseDown(CamState, IsTransformActive, button, x, y)
       IN /\ CommitCamera(cam)
          /\ lastEvent' = [kind |-> "mousedown", button |-> button,
                           active |-> IsTransformActive, updates |-> cam.updates]
    /\ pressed' = (button = RightButton \/ pressed)
    /\ tabRun' = <<>>
    /\ UNCHANGED <<selVars, texVars, innerSize, Mouse, IsTransformActive, deleted>>

\* mouseup on the canvas
MouseUpEvent ==
    /\ LET cam == MouseUp(CamState)
       IN /\ CommitCamera(cam)
          /\ lastEvent' = [kind |-> "mouseup", updates |-> cam.updates]
    /\ pressed' = FALSE
    /\ tabRun' = <<>>
    /\ UNCHANGED <<selVars, texVars, innerSize, Mouse, IsTransformActive, deleted>>

\* mouseleave on the canvas
MouseLeaveEvent ==
    /\ LET cam == MouseLeave(CamState)
       IN /\ CommitCamera(cam)
          /\ lastEvent' = [kind |-> "mouseleave", updates |-> cam.updates]
    /\ pressed' = FALSE
    /\ tabRun' = <<>>
    /\ UNCHANGED <<selVars, texVars, innerSize, Mouse, IsTransformActive, deleted>>

\* mousemove on the canvas
MouseMoveEvent(x, y) ==
    /\ LET cam == MouseMove(CamState, IsTransformActive, x, y)
       IN /\ Abs(cam.Theta) <= MaxAngle
          /\ Abs(cam.Phi) <= MaxAngle
          /\ CommitCamera(cam)
          /\ lastEvent' = [kind |-> "mousemove", active |-> IsTransformActive,
                           updates |-> cam.updates]
    /\ tabRun' = <<>>
    /\ UNCHANGED <<selVars, texVars, innerSize, Mouse, pressed, IsTransformActive, deleted>>

\* resize of the window to another inner size
ResizeEvent(size) ==
    /\ size # innerSize
    /\ innerSize' = size
    /\ LET cam == ResizeHandler(CamState, size)
       IN /\ CommitCamera(cam)
          /\ lastEvent' = [kind |-> "resize", updates |-> cam.updates]
    /\ tabRun' = <<>>
    /\ UNCHANGED <<selVars, texVars, Mouse, pressed, IsTransformActive, deleted>>

Next ==
    \/ AddSpriteClick
    \/ \E button \in Buttons : ClickSuppressed(button)
    \/ \E button \in Buttons : \E Intersects \in HitLists :
          ClickPick(button, Intersects, WINDOW_WIDTH \div 2, WINDOW_HEIGHT \div 2)
    \/ \E code \in KeyCodes : \E answer \in BOOLEAN : KeydownEvent(code, answer)
    \/ \E Index \in 0 .. Len(TransformModes) - 1 : ModeButtonClick(Index)
    \/ \E answer \in BOOLEAN : DeleteButtonClick(answer)
    \/ \E value \in BOOLEAN : DraggingChanged(value)
    \/ FileChange
    \/ \E Texture \in pendingLoads : LoadComplete(Texture)

Spec == Init /\ [][Next]_vars

\* the camera alone: zoom events and the gizmo's drag latch
NextCamera ==
    \/ \E deltaY \in DeltaYs : Wheel(deltaY)
    \/ \E value \in BOOLEAN : DraggingChanged(value)

SpecCamera == Init /\ [][NextCamera]_vars

\* the camera's gestures: drag, zoom, the gizmo's drag latch, resize
NextOrbit ==
    \/ \E button \in Buttons : \E x \in PointerXs : \E y \in PointerYs :
          MouseDownEvent(button, x, y)
    \/ MouseUpEvent
    \/ MouseLeaveEvent
    \/ \E x \in PointerXs : \E y \in PointerYs : MouseMoveEvent(x, y)
    \/ \E deltaY \in DeltaYs : WheelNear(deltaY)
    \/ \E value \in BOOLEAN : DraggingChanged(value)
    \/ \E size \in Sizes : ResizeEvent(size)

SpecOrbit == Init /\ [][NextOrbit]_vars

\* clicks anywhere on the canvas of a window that is resized
NextViewport ==
    \/ \E size \in Sizes : ResizeEvent(size)
    \/ \E button \in Buttons : ClickSuppressed(button)
    \/ \E button \in Buttons : \E Intersects \in HitLists : \E at \in ClickPoints(innerSize) :
          ClickPick(button, Intersects, at[1], at[2])
    \/ \E value \in BOOLEAN : DraggingChanged(value)

SpecViewport == Init /\ [][NextViewport]_vars

\* the texture loader with several loads in flight, and the add button
NextTexture ==
    \/ FileChangeQueued
    \/ \E Texture \in pendingLoads : LoadComplete(Texture)
    \/ AddSpriteClick

SpecTexture == Init /\ [][NextTexture]_vars

(***************************************************************************)
(* Properties.                                                             *)
(***************************************************************************)
Idle == SelectedSprite = NULL /\ gizmoObject = NULL
            /\ \A s \in SpriteIds : outlineChildren[s] = 0

\* the selection as a user sees it: selected object, outline, gizmo
selectionView == <<SelectedSprite, outlineChildren, gizmoObject, gizmoMode>>
collectionView == <<Sprites, sceneSprites>>

\* C1: after every completed event at most one placed object is selected, a
\* placed object carries an outline iff it is the selected one (and then
\* exactly one), and the gizmo is attached iff something is selected.
C1_SelectionInvariant ==
    /\ SelectedSprite # NULL => SelectedSprite \in sceneSprites
    /\ \A s \in SpriteIds : outlineChildren[s] > 0 <=> s = SelectedSprite
    /\ \A s \in SpriteIds : outlineChildren[s] <= 1
    /\ gizmoObject # NULL <=> SelectedSprite # NULL

\* Tab moved the selection from A to another object B: B alone is outlined
C1_Witness ==
    /\ Len(tabRun) = 2
    /\ tabRun[1] # tabRun[2]
    /\ SelectedSprite = tabRun[2]
    /\ outlineChildren[tabRun[2]] = 1
    /\ outlineChildren[tabRun[1]] = 0
    /\ gizmoObject = tabRun[2]

\* C2: while an object is selected, one Space keypress advances the gizmo
\* mode by exactly one step of Translate -> Rotate -> Scale -> Translate.
C2_SpaceAdvancesOneStep ==
    [][(lastEvent'.kind = "keydown" /\ lastEvent'.code = "Space"
            /\ gizmoObject # NULL)
        => /\ CurrentModeIndex' = (CurrentModeIndex + 1) % Len(TransformModes)
           /\ gizmoMode' = TransformModes[CurrentModeIndex' + 1]]_vars

\* C3: an unsuppressed pick selects the placed object owning the first hit
\* that belongs to a placed object, skipping hits on the grid, the axes and
\* the gizmo; when no hit belongs to a placed object the manager is Idle.
C3_PickSelectsFirstOwned ==
    (lastEvent.kind = "click" /\ ~lastEvent.suppressed)
    => IF lastEvent.owner # NULL
       THEN /\ lastEvent.owner \in sceneSprites
            /\ SelectedSprite = lastEvent.owner
            /\ gizmoObject = lastEvent.owner
            /\ \A s \in SpriteIds : outlineChildren[s] = IF s = lastEvent.owner THEN 1 ELSE 0
       ELSE Idle

\* a pick skipped a hit on a helper and selected the object behind it
C3_Witness ==
    /\ lastEvent.kind = "click"
    /\ ~lastEvent.suppressed
    /\ lastEvent.skipped
    /\ lastEvent.owner # NULL
    /\ SelectedSprite = lastEvent.owner

\* C4: a click during a latched gizmo drag, or with the secondary button,
\* leaves the selected object, its outline, the gizmo attachment and the
\* gizmo mode as they were.
C4_SuppressedClickChangesNothing ==
    [][(lastEvent'.kind = "click"
            /\ (lastEvent'.button = RightButton \/ IsTransformActive))
        => UNCHANGED <<selectionView, CurrentModeIndex, collectionView>>]_vars

\* a primary-button click arrived during a gizmo drag with an object selected
C4_Witness ==
    /\ lastEvent.kind = "click"
    /\ lastEvent.button # RightButton
    /\ lastEvent.active
    /\ IsTransformActive
    /\ SelectedSprite # NULL

\* the event was a delete request: Delete or Backspace, or the delete button
IsDeleteRequest(e) ==
    \/ e.kind = "deleteButton"
    \/ e.kind = "keydown" /\ e.code \in {"Delete", "Backspace"}

\* C5: Tab changes nothing on an empty collection, selects index 0 from
\* Idle, and from Selected(x) with x at index i of n selects index
\* (i + 1) mod n; so n + 1 consecutive Tab presses from Idle end on object 0
\* again and the n presses after the first visit every object exactly once.
C5_TabStep ==
    (lastEvent'.kind = "keydown" /\ lastEvent'.code = "Tab")
    => /\ UNCHANGED collectionView
       /\ Sprites = <<>> => UNCHANGED <<selectionView, CurrentModeIndex>>
       /\ (Sprites # <<>> /\ SelectedSprite = NULL) => SelectedSprite' = Sprites[1]
       /\ (Sprites # <<>> /\ SelectedSprite # NULL)
          => \E i \in 1 .. Len(Sprites) :
                /\ Sprites[i] = SelectedSprite
                /\ SelectedSprite' = Sprites[(i % Len(Sprites)) + 1]

C5_TabRun ==
    tabRun # <<>>
    => /\ Sprites # <<>>
       /\ SelectedSprite = tabRun[Len(tabRun)]
       /\ \A k \in 1 .. Len(tabRun) : tabRun[k] = Sprites[((k - 1) % Len(Sprites)) + 1]
       /\ Len(tabRun) = Len(Sprites) + 1
          => /\ tabRun[Len(tabRun)] = Sprites[1]
             /\ {tabRun[k] : k \in 2 .. Len(tabRun)} = Range(Sprites)
             /\ Cardinality(Range(Sprites)) = Len(Sprites)

\* C5: Tab selects index 0 from Idle and otherwise the next index modulo the
\* collection size, so a run of Tab presses from Idle cycles through the
\* collection with period n.
C5_TabCycles == [][C5_TabStep]_vars /\ []C5_TabRun

\* four consecutive Tab presses from Idle over three objects
C5_Witness ==
    /\ Len(Sprites) = 3
    /\ Len(tabRun) = 4
    /\ SelectedSprite = Sprites[1]

\* C6: a confirmed deletion removes the selected object from the scene and
\* from the collection, removes its outline, detaches the gizmo and leaves
\* the manager Idle; afterwards the deleted object is never selected, never
\* in the collection and never in the scene.
C6_DeleteStep ==
    (IsDeleteRequest(lastEvent') /\ lastEvent'.answer /\ SelectedSprite # NULL)
    => /\ SelectedSprite \notin sceneSprites'
       /\ SelectedSprite \notin Range(Sprites')
       /\ outlineChildren'[SelectedSprite] = 0
       /\ Idle'
       /\ SelectedSprite \in deleted'

C6_DeletedStaysGone ==
    \A d \in deleted :
        /\ d # SelectedSprite
        /\ d # gizmoObject
        /\ d \notin Range(Sprites)
        /\ d \notin sceneSprites

\* C6: a confirmed deletion removes the selected object everywhere and no
\* later state refers to it.
C6_DeleteIsFinal == [][C6_DeleteStep]_vars /\ []C6_DeletedStaysGone

\* after a deletion, Tab cycled over the two objects that remain
C6_Witness ==
    /\ deleted # {}
    /\ Len(Sprites) = 2
    /\ Len(tabRun) = 3

\* C7: a guarded action whose guard fails changes neither the collection,
\* the scene, the selection, the outline nor the gizmo: add without a
\* texture (a notice is shown), delete with nothing selected (no prompt),
\* and delete declined at the prompt.
C7_FailedGuardChangesNothing ==
    [][/\ (lastEvent'.kind = "add" /\ UserTexture = NULL)
          => /\ UNCHANGED <<selectionView, collectionView>>
             /\ lastEvent'.alerts = 1
       /\ (IsDeleteRequest(lastEvent') /\ SelectedSprite = NULL)
          => /\ UNCHANGED <<selectionView, collectionView>>
             /\ lastEvent'.prompts = 0
       /\ (IsDeleteRequest(lastEvent') /\ lastEvent'.prompts > 0 /\ ~lastEvent'.answer)
          => UNCHANGED <<selectionView, collectionView>>]_vars

\* the prompt was shown for a selected object and declined
C7_Witness ==
    /\ IsDeleteRequest(lastEvent)
    /\ lastEvent.prompts = 1
    /\ ~lastEvent.answer
    /\ SelectedSprite # NULL
    /\ SelectedSprite \in Range(Sprites)

\* C8: with a texture loaded, add-object appends exactly one new object to
\* the end of the collection, adds it to the scene and selects it: gizmo
\* attached to it, an outline on it and on no other object; the earlier
\* objects keep their order.
C8_AddAppendsAndSelects ==
    [][(lastEvent'.kind = "add" /\ UserTexture # NULL)
        => \E new \in SpriteIds \ (Range(Sprites) \cup sceneSprites \cup deleted) :
              /\ Sprites' = Append(Sprites, new)
              /\ sceneSprites' = sceneSprites \cup {new}
              /\ SelectedSprite' = new
              /\ gizmoObject' = new
              /\ \A s \in SpriteIds : outlineChildren'[s] = IF s = new THEN 1 ELSE 0]_vars

\* an object was added while another one was selected
C8_Witness ==
    /\ lastEvent.kind = "add"
    /\ lastEvent.texture # NULL
    /\ Len(Sprites) >= 2
    /\ SelectedSprite = Sprites[Len(Sprites)]
    /\ outlineChildren[Sprites[Len(Sprites) - 1]] = 0

Zoomed(from, deltaY) ==
    /\ lastEvent.kind = "wheel"
    /\ ~lastEvent.active
    /\ lastEvent.from = from
    /\ lastEvent.deltaY = deltaY

\* C10 as stated: at radius 10 one wheel event with deltaY > 0 gives 9.55;
\* at radius 1.1 one wheel event with deltaY < 0 gives 1.15.
C10_AsStated ==
    /\ Zoomed(10000, 1) => Radius = 9550
    /\ Zoomed(1100, -1) => Radius = 1150

\* C10 as amended: the steps have the stated size, 0.45 at radius 10 and
\* 0.05 at radius 1.1, but deltaY > 0 increases the radius and deltaY < 0
\* decreases it: from 10, deltaY > 0 gives 10.45 and deltaY < 0 gives 9.55;
\* from 1.1, deltaY > 0 gives 1.15 and deltaY < 0 stays at the floor 1.1.
C10_ZoomScenario ==
    /\ Zoomed(10000, 1) => Radius = 10450
    /\ Zoomed(10000, -1) => Radius = 9550
    /\ Zoomed(1100, 1) => Radius = 1150
    /\ Zoomed(1100, -1) => Radius = 1100

\* the camera was zoomed in to the floor and then zoomed out one step
C10_Witness == Zoomed(1100, 1) /\ Radius = 1150

(***************************************************************************)
(* The orbit camera under drag, zoom, the gizmo's drag latch and resize.   *)
(***************************************************************************)
PolarRange == PhiEpsilon .. Pi - PhiEpsilon
orbitState == <<Radius, Theta, Phi>>

\* C11: whatever value the stored polar angle has taken after any sequence
\* of drag events, the polar value UpdateCameraPosition used to place the
\* camera lies within [0.01, pi - 0.01].
C11_PolarUsedInRange == cameraPosition.Phi \in PolarRange

\* a drag carried the stored polar angle past pi - 0.01 and the camera was
\* placed with the upper limit
C11_Witness ==
    /\ lastEvent.kind = "mousemove"
    /\ lastEvent.updates > 0
    /\ Phi > Pi - PhiEpsilon
    /\ cameraPosition.Phi = Pi - PhiEpsilon

\* C14 as stated: UpdateCameraPosition is called before the handler
\* returns after every mutation of the orbit state, and also by the resize
\* handler.
C14_AsStated ==
    [][/\ orbitState' # orbitState => lastEvent'.updates > 0
       /\ lastEvent'.kind = "resize" => lastEvent'.updates > 0]_vars

\* C14 as amended: UpdateCameraPosition is called before the handler
\* returns after every mutation of the orbit state (a drag changing
\* azimuth/polar, a zoom changing the radius), which leaves the camera
\* placed at the new orbit state; the resize handler does not call it: it
\* sets the camera's aspect ratio and the renderer's size to the new window
\* size and leaves the orbit state and the camera's placement unchanged.
C14_UpdateAfterMutation ==
    [][/\ orbitState' # orbitState
          => /\ lastEvent'.updates > 0
             /\ cameraPosition' = SphericalOf(Radius', Theta', Phi')
       /\ lastEvent'.kind = "resize"
          => /\ lastEvent'.updates = 0
             /\ UNCHANGED <<orbitState, cameraPosition>>
             /\ cameraAspect' = innerSize'
             /\ rendererSize' = innerSize']_vars

\* the window was resized after the camera had been zoomed and dragged; the
\* camera is still placed at the orbit state
C14_Witness ==
    /\ lastEvent.kind = "resize"
    /\ Radius # InitRadius
    /\ Theta # InitTheta
    /\ Phi # InitPhi
    /\ cameraPosition = SphericalOf(Radius, Theta, Phi)

\* C16: the polar angle held in the orbit state is itself clamped: after any
\* sequence of secondary-button drag events the stored polar value lies
\* within [0.01, pi - 0.01].
C16_StoredPolarInRange == Phi \in PolarRange

\* C19: radius, azimuth and polar are unchanged by every mousemove and wheel
\* event that arrives while a gizmo drag is latched, also when a camera drag
\* had started before; a secondary-button press during a gizmo drag does
\* not start a camera drag; a mousemove changes azimuth/polar only if a
\* secondary-button press on the canvas occurred with no mouseup or
\* mouseleave since; nothing but a mousemove changes azimuth/polar and
\* nothing but a wheel event changes the radius.
C19_OrbitOwnGesturesOnly ==
    [][/\ IsTransformActive /\ lastEvent'.kind \in {"mousemove", "wheel"}
          => UNCHANGED orbitState
       /\ IsTransformActive /\ lastEvent'.kind = "mousedown"
          => UNCHANGED IsDragging
       /\ <<Theta, Phi>>' # <<Theta, Phi>>
          => lastEvent'.kind = "mousemove" /\ pressed /\ IsDragging
       /\ Radius' # Radius => lastEvent'.kind = "wheel"]_vars

\* a camera drag was started, then a gizmo drag; the mousemove that arrived
\* during the gizmo drag left the moved camera where it was
C19_Witness ==
    /\ lastEvent.kind = "mousemove"
    /\ lastEvent.active
    /\ lastEvent.updates = 0
    /\ IsDragging
    /\ pressed
    /\ Phi # InitPhi

(***************************************************************************)
(* The click handler's device coordinates in a resized window.             *)
(***************************************************************************)
\* the device coordinates of client position at in a viewport of that size
DeviceCoordinates(at, size) ==
    <<(at[1] * 2000) \div size[1] - 1000, 1000 - (at[2] * 2000) \div size[2]>>

\* C17: a click at client (x, y) in a viewport of current size (W, H), after
\* any resizes, yields the device coordinates (2x/W - 1, 1 - 2y/H); a click
\* at the centre of the current viewport maps to (0, 0).
C17_ClickRelativeToCurrentSize ==
    lastEvent.kind = "click" /\ ~lastEvent.suppressed
        => Mouse = DeviceCoordinates(lastEvent.at, innerSize)

(***************************************************************************)
(* The remembered gizmo mode.                                              *)
(***************************************************************************)
\* C12: whenever an object is selected the gizmo's mode is the remembered
\* mode TransformModes[CurrentModeIndex]; an object selected after a
\* deselection, a deletion or a switch gets the remembered mode.
C12_ModeRemembered ==
    SelectedSprite # NULL => gizmoMode = TransformModes[CurrentModeIndex + 1]

\* a pick selected an object after another one was deleted, while the
\* remembered mode is not translate
C12_Witness ==
    /\ lastEvent.kind = "click"
    /\ ~lastEvent.suppressed
    /\ lastEvent.owner # NULL
    /\ SelectedSprite = lastEvent.owner
    /\ deleted # {}
    /\ CurrentModeIndex # 0
    /\ gizmoMode = TransformModes[CurrentModeIndex + 1]

IsModeTrigger(e) ==
    \/ e.kind = "modeButton"
    \/ e.kind = "keydown" /\ e.code = "Space"

\* C13: the remembered mode changes only by Space or a mode button while an
\* object is selected; Space or a mode button with nothing selected leaves
\* the remembered mode and the gizmo unchanged; no other event changes the
\* remembered mode.
C13_ModeChangesOnlyByTrigger ==
    [][/\ CurrentModeIndex' # CurrentModeIndex
          => IsModeTrigger(lastEvent') /\ SelectedSprite # NULL
       /\ IsModeTrigger(lastEvent') /\ SelectedSprite = NULL
          => UNCHANGED <<CurrentModeIndex, gizmoMode, gizmoObject>>]_vars

\* Space was pressed with nothing selected while objects are placed and the
\* remembered mode is not translate
C13_Witness ==
    /\ lastEvent.kind = "keydown"
    /\ lastEvent.code = "Space"
    /\ SelectedSprite = NULL
    /\ Sprites # <<>>
    /\ CurrentModeIndex # 0

(***************************************************************************)
(* The collection and the selected reference.                              *)
(***************************************************************************)
\* C18: the selected reference is empty or a member of the collection, the
\* collection has no duplicates, the members of the collection are exactly
\* the placed objects in the scene, and Tab's index lookup finds the
\* selected object.
C18_NoDanglingSelection ==
    /\ SelectedSprite = NULL \/ SelectedSprite \in Range(Sprites)
    /\ Cardinality(Range(Sprites)) = Len(Sprites)
    /\ Range(Sprites) = sceneSprites
    /\ SelectedSprite # NULL => IndexOf(Sprites, SelectedSprite) >= 0

\* Tab selected an object after another one was deleted
C18_Witness ==
    /\ lastEvent.kind = "keydown"
    /\ lastEvent.code = "Tab"
    /\ deleted # {}
    /\ SelectedSprite # NULL
    /\ Len(Sprites) >= 2

(***************************************************************************)
(* The texture loader with several loads in flight.                        *)
(***************************************************************************)
\* the textures a completed load has stored as the user texture
everStored == (1 .. nextFile) \ pendingLoads

\* C15: when a load completion stores a new user texture the one stored
\* before has been disposed; at any time the only texture ever stored that
\* is not disposed is the current one.
C15_OldTextureDisposed ==
    /\ [](\A t \in everStored : t = UserTexture \/ t \in disposed)
    /\ [](UserTexture \notin disposed)
    /\ [][lastEvent'.kind = "load" /\ UserTexture # NULL
            => UserTexture \in disposed' /\ UserTexture' \notin disposed']_vars

\* a load completed and replaced a texture while another load is in flight
C15_Witness ==
    /\ lastEvent.kind = "load"
    /\ UserTexture = lastEvent.texture
    /\ disposed # {}
    /\ pendingLoads # {}

\* C20: last chosen file wins: when F2 is chosen before F1's load has
\* completed, then once both loads have completed, in either order, the
\* stored user texture, which an add-object uses, is F2's.  (When no load is
\* pending, a texture other than the last chosen file's can be the stored
\* one only if its load was pending when the last file was chosen.)
C20_LastChosenWins ==
    pendingLoads = {} /\ nextFile >= 2
        => /\ UserTexture = nextFile
           /\ lastEvent.kind = "add" => lastEvent.texture = nextFile

====
